---- MODULE Spec2Model ----
(***************************************************************************)
(* Collection and normalisation layer of the Shameless Sentiment Analyser: *)
(* the snscrape collector (TwitterCollector) with its rate limiter, the    *)
(* raw-HTTP Bluesky collector (BlueskyCollector.get_user_posts) and the    *)
(* route handlers / CLI command that drain the collectors' generators,     *)
(* and the start-up of api.main that builds the two collectors.            *)
(*                                                                         *)
(* Time is counted in ticks; RateGap is 1/rate_limit in ticks.  A limit of *)
(* 0 stands for every falsy limit of the code (None or 0).                 *)
(***************************************************************************)
EXTENDS Integers, Sequences, FiniteSets, TLC

\* ---------------------------------------------------------------- bounds
MaxItems == 3       \* longest item sequence a scraper hands out
MaxFeed == 2        \* longest Bluesky author-feed page
MaxLimit == 2       \* largest requested limit
MaxTicks == 4       \* ticks the clock may advance after start-up
RateGap == 2        \* 1.0 / rate_limit, in ticks
MaxItemsConc == 1   \* longest item sequence in the two-thread specification
MaxUsers == 2       \* max_users of save_analysis (10 in the code), scaled down
MaxSaves == 4       \* save_analysis calls followed in one run
MaxRuns == 2        \* requests to the analysis route followed in one run
MaxText == 3        \* longest text handed to TextPreprocessor.clean
MaxPosts == 3       \* most posts analysed by one request

Threads == {1, 2}

VARIABLES
    now,                \* time.time()
    last_request_time,  \* TwitterCollector._last_request_time
    grant_log,          \* the last two values written to _last_request_time
    tw,                 \* per thread: the running search / get_user_tweets call
    resp,               \* per thread: what the entry point delivered last
    twitter_collector,  \* api.main.twitter_collector: "unset", "none" or "ready"
    bluesky_collector,  \* api.main.bluesky_collector: "unset", "none" or "ready"
    boot,               \* the import of api.main: the settings read and how far it got
    auth_failed,        \* the Bluesky session was rejected (login or a 401)
    bs,                 \* the running get_user_posts call
    bs_resp,            \* what scrape_bluesky_user answered last
    db,                 \* db/users.json and the calls that work on it
    calc                \* a pure function applied to an input: operation, input, result

vars == <<now, last_request_time, grant_log, tw, resp, twitter_collector,
          bluesky_collector, boot, auth_failed, bs, bs_resp, db, calc>>

\* ------------------------------------------------------------ sequences
RECURSIVE SeqsUpTo(_, _)
SeqsUpTo(S, n) ==
    IF n = 0 THEN {<<>>}
    ELSE LET shorter == SeqsUpTo(S, n - 1)
         IN  shorter \cup {Append(s, x) : s \in {q \in shorter : Len(q) = n - 1}, x \in S}

\* ======================================================== TwitterCollector

\* What _parse_tweet does with a raw snscrape object: "ok" parses, "bad"
\* raises (an attribute is missing or None where an object is needed).
TwItemKinds == {"ok", "bad"}

TwEndpoints == {"tw_search", "tw_user", "cli"}

\* Query(ge=10) / Query(ge=5) keep the routes' limit positive; click's
\* --limit is an unconstrained int and the collector's default is None.
TwLimits(ep) == IF ep = "cli" THEN 0..MaxLimit ELSE 1..MaxLimit

\* The locals of a search / get_user_tweets call before it starts: each
\* call builds a new scraper object and sets count = 0 (lines 137-138).
TwIdleCountKept ==
    [pc |-> "idle", ep |-> "none", items |-> <<>>, fails |-> FALSE, idx |-> 0,
     out |-> <<>>, count |-> 1, limit |-> 0, wake |-> 0, raised |-> FALSE]
TwIdle ==
    [pc |-> "idle", ep |-> "none", items |-> <<>>, fails |-> FALSE, idx |-> 0,
     out |-> <<>>, count |-> 0, limit |-> 0, wake |-> 0, raised |-> FALSE]

NoResp == [ep |-> "none", status |-> "none", body |-> <<>>, produced |-> <<>>,
           failed |-> FALSE, limit |-> 0, items |-> <<>>]

\* The state of a get_user_posts call and of its route's answer.  error is
\* the exception that leaves the generator: every exception raised inside
\* the try of line 110 is caught by a handler of lines 213-235, and each of
\* them returns, so it stays "none" once the collector is logged in.
BsIdle ==
    [pc |-> "idle", limit |-> 0, token |-> FALSE, http |-> "none", body |-> "none",
     feed |-> <<>>, idx |-> 0, out |-> <<>>, posts_collected |-> 0, posts_skipped |-> 0,
     requests |-> 0, error |-> "none"]

BsNoResp ==
    [status |-> "none", body |-> <<>>, limit |-> 0, token |-> FALSE, http |-> "none",
     feed |-> <<>>, posts_skipped |-> 0, requests |-> 0, error |-> "none"]

\* yield tweet: the consumer receives the posts in the order of the yields.
EmitFront(out, post) == <<post>> \o out
Emit(out, post) == Append(out, post)

\* if limit and count >= limit: break
LimitReachedLate(count, limit) == limit # 0 /\ count > limit
LimitReached(count, limit) == limit # 0 /\ count >= limit

\* sleep_time = (1.0 / self.rate_limit) - elapsed
SleepTimeNoLast(t_now, last) == RateGap - t_now
SleepTime(t_now, last) == RateGap - (t_now - last)

\* The entry point is called: the scraper object is built, count = 0.  The
\* provider's answer (its items, and whether get_items() raises after them)
\* is fixed here.  A route first tests the module's collector ("if not
\* twitter_collector": 503); the CLI command builds a collector of its own.
TwCall(t, ep, limit, items, fails) ==
    /\ tw[t].pc = "idle"
    /\ ep = "cli" \/ boot.pc = "serving"
    /\ IF ep # "cli" /\ twitter_collector # "ready"
       THEN /\ resp' = [resp EXCEPT ![t] = [NoResp EXCEPT !.ep = ep, !.status = "503"]]
            /\ UNCHANGED tw
       ELSE /\ tw' = [tw EXCEPT ![t] = [TwIdle EXCEPT !.pc = "pull", !.ep = ep,
                                                      !.limit = limit, !.items = items,
                                                      !.fails = fails]]
            /\ resp' = [resp EXCEPT ![t] = NoResp]
    /\ UNCHANGED <<now, last_request_time, grant_log, twitter_collector, bluesky_collector, boot, auth_failed, bs, bs_resp, db, calc>>

\* for tweet_obj in scraper.get_items(): the next item, the end of the
\* sequence, or the provider's exception (logged and re-raised).
TwPullGrantAtEnd(t) ==
    /\ tw[t].pc = "pull"
    /\ IF tw[t].idx < Len(tw[t].items)
       THEN /\ tw' = [tw EXCEPT ![t].idx = @ + 1, ![t].pc = "rl_read"]
            /\ UNCHANGED <<last_request_time, grant_log>>
       ELSE /\ tw' = [tw EXCEPT ![t].pc = "end", ![t].raised = tw[t].fails]
            /\ last_request_time' = now
            /\ grant_log' = IF Len(grant_log) < 2 THEN Append(grant_log, now)
                            ELSE <<grant_log[2], now>>
    /\ UNCHANGED <<now, resp, twitter_collector, bluesky_collector, boot, auth_failed, bs, bs_resp, db, calc>>
TwPull(t) ==
    /\ tw[t].pc = "pull"
    /\ IF tw[t].idx < Len(tw[t].items)
       THEN tw' = [tw EXCEPT ![t].idx = @ + 1, ![t].pc = "rl_read"]
       ELSE tw' = [tw EXCEPT ![t].pc = "end", ![t].raised = tw[t].fails]
    /\ UNCHANGED <<now, last_request_time, grant_log, resp, twitter_collector, bluesky_collector, boot, auth_failed, bs, bs_resp, db, calc>>

\* _rate_limit_sleep, first half: elapsed, sleep_time, the test sleep_time > 0.
RlRead(t) ==
    /\ tw[t].pc = "rl_read"
    /\ LET sleep_time == SleepTime(now, last_request_time)
       IN  IF sleep_time > 0
           THEN tw' = [tw EXCEPT ![t].pc = "rl_sleep", ![t].wake = now + sleep_time]
           ELSE tw' = [tw EXCEPT ![t].pc = "rl_write"]
    /\ UNCHANGED <<now, last_request_time, grant_log, resp, twitter_collector, bluesky_collector, boot, auth_failed, bs, bs_resp, db, calc>>

\* time.sleep(sleep_time) returns once at least sleep_time has passed.
RlSleep(t) ==
    /\ tw[t].pc = "rl_sleep"
    /\ now >= tw[t].wake
    /\ tw' = [tw EXCEPT ![t].pc = "rl_write"]
    /\ UNCHANGED <<now, last_request_time, grant_log, resp, twitter_collector, bluesky_collector, boot, auth_failed, bs, bs_resp, db, calc>>

\* self._last_request_time = time.time(): the grant.
RlWrite(t) ==
    /\ tw[t].pc = "rl_write"
    /\ last_request_time' = now
    /\ grant_log' = IF Len(grant_log) < 2 THEN Append(grant_log, now)
                    ELSE <<grant_log[2], now>>
    /\ tw' = [tw EXCEPT ![t].pc = "parse"]
    /\ UNCHANGED <<now, resp, twitter_collector, bluesky_collector, boot, auth_failed, bs, bs_resp, db, calc>>

\* The inner try: _parse_tweet, yield, count += 1, the limit test; a
\* parsing error is logged and the loop continues.
TwParse(t) ==
    /\ tw[t].pc = "parse"
    /\ LET c == tw[t]
       IN  IF c.items[c.idx] = "ok"
           THEN tw' = [tw EXCEPT ![t].out = Emit(@, c.idx),
                                 ![t].count = @ + 1,
                                 ![t].pc = IF LimitReached(c.count + 1, c.limit)
                                           THEN "end" ELSE "pull"]
           ELSE tw' = [tw EXCEPT ![t].pc = "pull"]
    /\ UNCHANGED <<now, last_request_time, grant_log, resp, twitter_collector, bluesky_collector, boot, auth_failed, bs, bs_resp, db, calc>>

\* What the entry point does once the generator has ended or raised.
\*   scrape_twitter_query: list(...) -> 200, exception -> 500
\*   scrape_twitter_user:  empty list -> 404
\*   cli scrape:           exception -> message and return, empty -> message,
\*                         otherwise the collected dicts are saved
Deliver(ep, raised, posts) ==
    CASE ep = "tw_search" ->
            IF raised THEN [status |-> "500", body |-> <<>>]
            ELSE [status |-> "200", body |-> posts]
      [] ep \in {"tw_user", "bs_user"} ->
            IF raised THEN [status |-> "500", body |-> <<>>]
            ELSE IF posts = <<>> THEN [status |-> "404", body |-> <<>>]
            ELSE [status |-> "200", body |-> posts]
      [] OTHER ->
            IF raised THEN [status |-> "error", body |-> <<>>]
            ELSE IF posts = <<>> THEN [status |-> "nothing", body |-> <<>>]
            ELSE [status |-> "saved", body |-> posts]

TwReturn(t) ==
    /\ tw[t].pc = "end"
    /\ LET c == tw[t]
           d == Deliver(c.ep, c.raised, c.out)
       IN  resp' = [resp EXCEPT ![t] =
                      [ep |-> c.ep, status |-> d.status, body |-> d.body,
                       produced |-> c.out, failed |-> c.raised,
                       limit |-> c.limit, items |-> c.items]]
    /\ tw' = [tw EXCEPT ![t] = TwIdle]
    /\ UNCHANGED <<now, last_request_time, grant_log, twitter_collector, bluesky_collector, boot, auth_failed, bs, bs_resp, db, calc>>

\* The wall clock advances (idle periods, sleeps that overshoot).
Tick ==
    /\ now < RateGap + MaxTicks
    /\ now' = now + 1
    /\ UNCHANGED <<last_request_time, grant_log, tw, resp, twitter_collector, bluesky_collector, boot, auth_failed, bs, bs_resp, db, calc>>

\* ======================================================== BlueskyCollector

\* One raw element of the 'feed' array, by the shape of the parts that
\* get_user_posts touches:
\*   doc     "dict" a JSON object, "list" another container (array, string)
\*           that does not hold 'post', "null" a JSON null or number
\*   post    the 'post' member: "dict", "absent", "null" (present, no object)
\*   record  post['record']: "dict", "absent", "null"
\*   uri     post['uri']: "str", "absent", "num"
\*   handle  post['author']['handle']: "str", "absent"
\*   langs   record['langs']: "list" (non-empty), "absent", "empty" ([]), "null"
\*   likes   post['likeCount']: "int", "absent", "null"
BsValid ==
    [doc |-> "dict", post |-> "dict", record |-> "dict", uri |-> "str", handle |-> "str",
     langs |-> "list", likes |-> "int"]

BsItems ==
    { BsValid,
      [BsValid EXCEPT !.doc = "null"],
      [BsValid EXCEPT !.doc = "list"],
      [BsValid EXCEPT !.post = "absent"],
      [BsValid EXCEPT !.post = "null"],
      [BsValid EXCEPT !.record = "null"],
      [BsValid EXCEPT !.uri = "num"],
      [BsValid EXCEPT !.record = "absent", !.uri = "absent", !.handle = "absent",
                      !.langs = "absent", !.likes = "absent"],
      [BsValid EXCEPT !.langs = "absent"],
      [BsValid EXCEPT !.langs = "empty"],
      [BsValid EXCEPT !.langs = "null"],
      [BsValid EXCEPT !.likes = "absent"],
      [BsValid EXCEPT !.likes = "null"] }

\* The answer of httpx.get: a status (or a transport error / timeout) and,
\* for 200, the JSON body: falsy, without 'feed', or with the feed array.
HttpErrors == {"401", "404", "500", "neterr"}

BsResponsesOver(items, n) ==
    {[http |-> h, body |-> "none", feed |-> <<>>] : h \in HttpErrors}
    \cup {[http |-> "200", body |-> b, feed |-> <<>>] : b \in {"empty", "nofeed"}}
    \cup {[http |-> "200", body |-> "feed", feed |-> f] : f \in SeqsUpTo(items, n)}

BsResponses == BsResponsesOver(BsItems, MaxFeed)

\* One item for each way the loop of lines 164-211 can treat an item: it is
\* emitted, skipped at line 165, skipped by the inner except, or it ends
\* the loop.
BsShapes ==
    { BsValid,
      [BsValid EXCEPT !.post = "absent"],
      [BsValid EXCEPT !.record = "null"],
      [BsValid EXCEPT !.doc = "null"] }

\* The membership test of line 165, which stands outside the inner try:
\*   "raise"  TypeError, the item is no container
\*   "skip"   the item holds no 'post': continue, nothing is counted
\*   "parse"  the inner try is entered
HasPost(item) ==
    IF item.doc = "null" THEN "raise"
    ELSE IF item.doc = "list" \/ item.post = "absent" THEN "skip"
    ELSE "parse"

\* post_data.get('likeCount', 0): the default stands in for an absent key
\* only; a key that holds null gives None.
LikesOrZero(likes) == IF likes = "int" THEN "int" ELSE "0"
Likes(likes) == CASE likes = "int" -> "int" [] likes = "absent" -> "0" [] OTHER -> "None"

\* record.get('langs', [None])[0] if 'langs' in record else None
Language(langs) == IF langs = "list" THEN "lang" ELSE "None"

\* The inner try of lines 169-211 on an item that holds 'post': the Tweet
\* built, or not ok when an exception is raised: a .get / .split applied to
\* a value without it, or [0] applied to an empty list or to None.
ParsePost(item, pos) ==
    IF \/ item.post # "dict" \/ item.record = "null" \/ item.uri = "num"
       \/ (item.record = "dict" /\ item.langs \in {"empty", "null"})
    THEN [ok |-> FALSE,
          tweet |-> [pos |-> pos, id |-> "", username |-> "", likes |-> "0",
                     language |-> "None"]]
    ELSE [ok |-> TRUE,
          tweet |-> [pos |-> pos,
                     id |-> IF item.uri = "str" THEN "id" ELSE "",
                     username |-> IF item.handle = "str" THEN "handle" ELSE "",
                     likes |-> Likes(item.likes),
                     language |-> IF item.record = "dict"
                                  THEN Language(item.langs) ELSE "None"]]

\* scrape_bluesky_user with no collector: 503.
BsNotConfigured ==
    /\ bs.pc = "idle"
    /\ bluesky_collector = "none"
    /\ bs_resp' = [BsNoResp EXCEPT !.status = "503"]
    /\ UNCHANGED <<now, last_request_time, grant_log, tw, resp, twitter_collector, bluesky_collector, boot, auth_failed, bs, db, calc>>

\* scrape_bluesky_user calls get_user_posts(handle, limit); the collector
\* exists, so its login succeeded and _logged_in is True.  Whether the
\* client still exposes a session token, and the provider's answer, are
\* fixed here.
BsCall(limit, token, r) ==
    /\ bs.pc = "idle"
    /\ bluesky_collector = "ready"
    /\ bs' = [BsIdle EXCEPT !.pc = "auth", !.limit = limit, !.token = token,
                            !.http = r.http, !.body = r.body, !.feed = r.feed]
    /\ bs_resp' = BsNoResp
    /\ UNCHANGED <<now, last_request_time, grant_log, tw, resp, twitter_collector, bluesky_collector, boot, auth_failed, db, calc>>

\* Lines 110-137: resolve the access token; without one ConnectionError is
\* raised inside the inner try, caught by "except Exception" (line 231),
\* logged, and the generator returns.
BsAuth ==
    /\ bs.pc = "auth"
    /\ bs' = [bs EXCEPT !.pc = IF bs.token THEN "fetch" ELSE "end"]
    /\ UNCHANGED <<now, last_request_time, grant_log, tw, resp, twitter_collector, bluesky_collector, boot, auth_failed, bs_resp, db, calc>>

\* Lines 140-161: the request, raise_for_status, the body checks.  Every
\* failure (HTTPStatusError, HTTPError, empty body, no 'feed', empty feed)
\* is logged and the generator returns; the 401 handler (lines 215-217)
\* changes nothing on the collector, _logged_in stays True.
BsFetch ==
    /\ bs.pc = "fetch"
    /\ bs' = [bs EXCEPT !.requests = @ + 1,
                        !.pc = IF bs.http = "200" /\ bs.body = "feed" /\ bs.feed # <<>>
                               THEN "loop" ELSE "end"]
    /\ auth_failed' = (auth_failed \/ bs.http = "401")
    /\ UNCHANGED <<now, last_request_time, grant_log, tw, resp, twitter_collector, bluesky_collector, boot, bs_resp, db, calc>>

\* Lines 164-211: one turn of the item loop.
BsItem ==
    /\ bs.pc = "loop"
    /\ LET pos == bs.idx + 1
           item == bs.feed[pos]
           test == HasPost(item)
           p == ParsePost(item, pos)
           more == IF pos < Len(bs.feed) THEN "loop" ELSE "end"
       IN  CASE test = "raise" ->
                  \* TypeError leaves the loop: caught at line 231, return
                  bs' = [bs EXCEPT !.idx = pos, !.pc = "end"]
             [] test = "skip" ->
                  bs' = [bs EXCEPT !.idx = pos, !.pc = more]
             [] OTHER ->
                  IF p.ok
                  THEN bs' = [bs EXCEPT !.idx = pos, !.pc = more,
                                        !.out = Emit(@, p.tweet),
                                        !.posts_collected = @ + 1]
                  ELSE bs' = [bs EXCEPT !.idx = pos, !.pc = more,
                                        !.posts_skipped = @ + 1]
    /\ UNCHANGED <<now, last_request_time, grant_log, tw, resp, twitter_collector, bluesky_collector, boot, auth_failed, bs_resp, db, calc>>

\* scrape_bluesky_user after list(posts_iterator): no posts -> 404,
\* an exception -> 500, otherwise the posts.
BsReturn ==
    /\ bs.pc = "end"
    /\ LET d == Deliver("bs_user", bs.error # "none", bs.out)
       IN  bs_resp' = [status |-> d.status, body |-> d.body, limit |-> bs.limit,
                       token |-> bs.token, http |-> bs.http, feed |-> bs.feed,
                       posts_skipped |-> bs.posts_skipped, requests |-> bs.requests,
                       error |-> bs.error]
    /\ bs' = BsIdle
    /\ UNCHANGED <<now, last_request_time, grant_log, tw, resp, twitter_collector, bluesky_collector, boot, auth_failed, db, calc>>

\* ============================================== start-up of api.main

\* config/settings.py: the four Twitter credentials, each Optional[str].
TwitterCredentials ==
    {"TWITTER_API_KEY", "TWITTER_API_KEY_SECRET",
     "TWITTER_ACCESS_TOKEN", "TWITTER_ACCESS_TOKEN_SECRET"}

\* A setting read from the environment: None, the empty string, or a value.
SettingKinds == {"none", "empty", "set"}

\* if not (handle and password): None and "" are both falsy.
CredentialsSetHandleOnly(handle, password) == handle = "set"
CredentialsSet(handle, password) == handle = "set" /\ password = "set"

\* The import of api.main before its first statement of lines 30-41 ran.
\*   pc              "tw_init", "bs_init", "bs_login", "serving", "crashed"
\*   twitter_set     the Twitter credentials that hold a value
\*   login_attempts  calls of Client.login
\*   logged_in       BlueskyCollector._logged_in
\*   error           the exception that left BlueskyCollector.__init__
Booting(handle, password, twitter_set) ==
    [pc |-> "tw_init", BLUESKY_HANDLE |-> handle, BLUESKY_PASSWORD |-> password,
     twitter_set |-> twitter_set, login_attempts |-> 0, logged_in |-> FALSE,
     error |-> "none"]

\* Lines 30-34: TwitterCollector() stores rate_limit, max_retries, timeout
\* and _last_request_time; it reads no credential and raises nothing, so
\* the "except ValueError" branch is never taken.
TwitterInit ==
    /\ boot.pc = "tw_init"
    /\ twitter_collector' = "ready"
    /\ boot' = [boot EXCEPT !.pc = "bs_init"]
    /\ UNCHANGED <<now, last_request_time, grant_log, tw, resp, bluesky_collector, auth_failed, bs, bs_resp, db, calc>>

\* Lines 37-41 with BlueskyCollector.__init__ lines 24-32: the credentials
\* test.  ValueError is caught by the module: bluesky_collector = None.
BlueskyInit ==
    /\ boot.pc = "bs_init"
    /\ IF CredentialsSet(boot.BLUESKY_HANDLE, boot.BLUESKY_PASSWORD)
       THEN /\ boot' = [boot EXCEPT !.pc = "bs_login"]
            /\ UNCHANGED bluesky_collector
       ELSE /\ boot' = [boot EXCEPT !.pc = "serving", !.error = "ValueError"]
            /\ bluesky_collector' = "none"
    /\ UNCHANGED <<now, last_request_time, grant_log, tw, resp, twitter_collector, auth_failed, bs, bs_resp, db, calc>>

\* BlueskyCollector.__init__ lines 34-41: client.login.  A rejected login is
\* logged and re-raised; it is no ValueError, so it leaves the module's try
\* and the import of api.main fails with bluesky_collector unbound.
BlueskyLogin(accepted) ==
    /\ boot.pc = "bs_login"
    /\ IF accepted
       THEN /\ boot' = [boot EXCEPT !.pc = "serving", !.login_attempts = @ + 1,
                                    !.logged_in = TRUE]
            /\ bluesky_collector' = "ready"
            /\ UNCHANGED auth_failed
       ELSE /\ boot' = [boot EXCEPT !.pc = "crashed", !.login_attempts = @ + 1,
                                    !.error = "login"]
            /\ auth_failed' = TRUE
            /\ UNCHANGED bluesky_collector
    /\ UNCHANGED <<now, last_request_time, grant_log, tw, resp, twitter_collector, bs, bs_resp, db, calc>>

\* ============================================================ UserDatabase

\* The workers that run code on db/users.json: the route handlers (plain
\* "def", run on the thread pool) and the background tasks they schedule.
Procs == {1, 2}

\* User handles, as the keys of the stored analyses:
\*   0        no handle: the key is missing, None or the empty string
\*   1, 2, .. the handles as the provider spells them (profile.handle)
\*   -1       the same account as 1 named in another way (its DID, another
\*            spelling): what a client may put in the request path
Handles == 0..(MaxUsers + 1)
Actors == (Handles \ {0}) \cup {-1}

\* get_profile resolves the actor of the request to the profile's handle.
ProfileHandle(actor) == IF actor < 0 THEN -actor ELSE actor

\* A stored analysis: its user_handle, which analysis run produced its
\* posts and totals (stamp), and whether personality_analysis is set.
NoEntry == [user_handle |-> 0, stamp |-> 0, personality |-> FALSE]
Entry(handle, stamp) == [user_handle |-> handle, stamp |-> stamp, personality |-> FALSE]

\* pc: "idle", "sa_read", "sa_write" (save_analysis), "t_get", "t_llm"
\* (generate_personality_analysis_task); analysis: the argument of
\* save_analysis; users: its local list; task: the handle the route hands to
\* background_tasks.add_task; lookup / found: the task's get_by_handle;
\* status: how the last save_analysis call or task look-up ended.
WIdle ==
    [pc |-> "idle", analysis |-> NoEntry, users |-> <<>>, task |-> 0, lookup |-> 0,
     found |-> NoEntry, status |-> "none"]

\* users: the list in db/users.json (no file: the empty list); saved: the
\* analyses written, oldest first; writes: calls of write_all; next: the
\* stamp of the next analysis run; listing: what /api/users answered since
\* the last write.
DbEmpty ==
    [users |-> <<>>, saved |-> <<>>, writes |-> 0, next |-> 1, listing |-> <<>>,
     w |-> [p \in Procs |-> WIdle]]

\* read_all: the file holds the list that write_all dumped.
ReadAll(users) == users

\* if not handle: return
HandleMissingNever(analysis) == FALSE
HandleMissing(analysis) == analysis.user_handle = 0

\* users = [u for u in users if u.get('user_handle') != handle]
WithoutHandle(users, handle) == SelectSeq(users, LAMBDA u : u.user_handle # handle)

\* users.insert(0, analysis)
InsertBack(users, analysis) == Append(users, analysis)
InsertFront(users, analysis) == <<analysis>> \o users

\* users = users[:max_users]
KeepFirstAndOne(users, max_users) ==
    IF Len(users) <= max_users + 1 THEN users ELSE SubSeq(users, 1, max_users + 1)
KeepFirst(users, max_users) ==
    IF Len(users) <= max_users THEN users ELSE SubSeq(users, 1, max_users)

\* get_by_handle: the first entry with the handle, or None.
GetByHandle(users, handle) ==
    LET hits == SelectSeq(users, LAMBDA u : u.user_handle = handle)
    IN  IF hits = <<>> THEN NoEntry ELSE hits[1]

\* save_analysis(analysis) is called with the result of a new analysis run.
SaveCall(p, handle) ==
    /\ db.w[p].pc = "idle"
    /\ db.next <= MaxSaves
    /\ db' = [db EXCEPT !.next = @ + 1,
                        !.w[p] = [WIdle EXCEPT !.pc = "sa_read",
                                               !.analysis = Entry(handle, db.next)]]
    /\ UNCHANGED <<now, last_request_time, grant_log, tw, resp, twitter_collector, bluesky_collector, boot, auth_failed, bs, bs_resp, calc>>

\* analyze_bluesky_user_sentiment, lines 314-405, for a request that got
\* posts: the profile is fetched (user_handle = profile.handle) or the fetch
\* fails (user_handle = handle), the posts are analysed, and save_analysis is
\* called with the result; the task for the requested handle is added next.
AnalyzeRequest(p, actor, profile_found) ==
    /\ db.w[p].pc = "idle"
    /\ db.next <= MaxSaves
    /\ LET user_handle == IF profile_found THEN ProfileHandle(actor) ELSE actor
       IN  db' = [db EXCEPT !.next = @ + 1,
                            !.w[p] = [WIdle EXCEPT !.pc = "sa_read", !.task = actor,
                                                   !.analysis = Entry(user_handle, db.next)]]
    /\ UNCHANGED <<now, last_request_time, grant_log, tw, resp, twitter_collector, bluesky_collector, boot, auth_failed, bs, bs_resp, calc>>

\* save_analysis lines 98-104: users = self.read_all(); the handle test.
SaRead(p) ==
    /\ db.w[p].pc = "sa_read"
    /\ IF HandleMissing(db.w[p].analysis)
       THEN db' = [db EXCEPT !.w[p].pc = "idle", !.w[p].status = "skipped"]
       ELSE db' = [db EXCEPT !.w[p].pc = "sa_write", !.w[p].users = ReadAll(db.users)]
    /\ UNCHANGED <<now, last_request_time, grant_log, tw, resp, twitter_collector, bluesky_collector, boot, auth_failed, bs, bs_resp, calc>>

\* save_analysis lines 106-120: the new list is built from the list read
\* and written with write_all; back in the route, the task is added and
\* runs once the response is sent.
SaWrite(p) ==
    /\ db.w[p].pc = "sa_write"
    /\ LET me == db.w[p]
           users == KeepFirst(InsertFront(WithoutHandle(me.users, me.analysis.user_handle),
                                          me.analysis), MaxUsers)
       IN  db' = [db EXCEPT !.users = users,
                            !.saved = Append(@, me.analysis),
                            !.writes = @ + 1,
                            !.listing = <<>>,
                            !.w[p].status = "saved",
                            !.w[p].users = <<>>,
                            !.w[p].lookup = me.task,
                            !.w[p].pc = IF me.task # 0 THEN "t_get" ELSE "idle"]
    /\ UNCHANGED <<now, last_request_time, grant_log, tw, resp, twitter_collector, bluesky_collector, boot, auth_failed, bs, bs_resp, calc>>

\* generate_personality_analysis_task lines 96-100 (DeepSeek configured):
\* user_data = user_db.get_by_handle(handle); no entry: the task returns.
TaskGet(p) ==
    /\ db.w[p].pc = "t_get"
    /\ LET user_data == GetByHandle(ReadAll(db.users), db.w[p].lookup)
       IN  IF user_data = NoEntry
           THEN db' = [db EXCEPT !.w[p].pc = "idle", !.w[p].status = "not_found"]
           ELSE db' = [db EXCEPT !.w[p].pc = "t_llm", !.w[p].found = user_data]
    /\ UNCHANGED <<now, last_request_time, grant_log, tw, resp, twitter_collector, bluesky_collector, boot, auth_failed, bs, bs_resp, calc>>

\* Lines 110-118: analyze_personality answers with a text or with None; with
\* a text, user_data gets it and save_analysis(user_data) is called.
TaskLlm(p, answered) ==
    /\ db.w[p].pc = "t_llm"
    /\ IF answered
       THEN db' = [db EXCEPT !.w[p].pc = "sa_read", !.w[p].task = 0,
                             !.w[p].analysis = [db.w[p].found EXCEPT !.personality = TRUE]]
       ELSE db' = [db EXCEPT !.w[p].pc = "idle"]
    /\ UNCHANGED <<now, last_request_time, grant_log, tw, resp, twitter_collector, bluesky_collector, boot, auth_failed, bs, bs_resp, calc>>

\* get_saved_users: /api/users answers with read_all().
GetSavedUsers ==
    /\ db.listing # ReadAll(db.users)
    /\ db' = [db EXCEPT !.listing = ReadAll(db.users)]
    /\ UNCHANGED <<now, last_request_time, grant_log, tw, resp, twitter_collector, bluesky_collector, boot, auth_failed, bs, bs_resp, calc>>

NoCalc == [op |-> "none", input |-> <<>>, result |-> <<>>]

\* ---------------------------------------------------------------------
\* Tweet.to_dict, DataStorage.save_json / load_json
\* ---------------------------------------------------------------------

\* Python values of a post's fields, each with the text that stands for it.
PyNone == [t |-> "none", v |-> ""]
PyStr(s) == [t |-> "str", v |-> s]
PyInt(s) == [t |-> "int", v |-> s]
PyDatetime(s) == [t |-> "datetime", v |-> s]

\* What each collector puts into a Tweet.  _parse_tweet: date is the
\* provider's datetime, likes is "likeCount or 0".  get_user_posts: date is
\* record.get('createdAt', ''), a string; likes is post.get('likeCount', 0),
\* None for a null; language is a string or None for both.
PostIds == {PyStr("1"), PyStr("abc")}
PostLanguages == {PyNone, PyStr("en")}
PostHashtags == {<<>>, <<PyStr("ai")>>}
TwitterPosts ==
    [id : PostIds, date : {PyDatetime("2024-01-01T00:00:00+00:00")},
     likes : {PyInt("0"), PyInt("7")}, hashtags : PostHashtags, language : PostLanguages]
BlueskyPosts ==
    [id : PostIds, date : {PyStr(""), PyStr("2024-01-01T00:00:00Z")},
     likes : {PyInt("0"), PyInt("7"), PyNone}, hashtags : PostHashtags,
     language : PostLanguages]

\* self.date.isoformat(): defined for a datetime, AttributeError for a str.
HasIsoformat(value) == value.t = "datetime"
Isoformat(value) == PyStr(value.v)

\* to_dict: data = asdict(self); data['date'] = self.date.isoformat()
ToDict(post) == [post EXCEPT !.date = Isoformat(post.date)]

\* json.dump / json.load of one value: None <-> null, str <-> string,
\* int <-> number, list <-> array.
JsonDump(value) ==
    CASE value.t = "none" -> [j |-> "null", text |-> "null"]
      [] value.t = "str" -> [j |-> "string", text |-> value.v]
      [] value.t = "int" -> [j |-> "number", text |-> value.v]
JsonLoad(json) ==
    CASE json.j = "null" -> PyNone
      [] json.j = "string" -> PyStr(json.text)
      [] json.j = "number" -> PyInt(json.text)

\* save_json: json.dump(data, f, ensure_ascii=False, indent=2)
SaveJson(data) ==
    [id |-> JsonDump(data.id), date |-> JsonDump(data.date), likes |-> JsonDump(data.likes),
     hashtags |-> [i \in 1..Len(data.hashtags) |-> JsonDump(data.hashtags[i])],
     language |-> JsonDump(data.language)]

\* load_json: data = json.load(f)
LoadJson(file) ==
    [id |-> JsonLoad(file.id), date |-> JsonLoad(file.date), likes |-> JsonLoad(file.likes),
     hashtags |-> [i \in 1..Len(file.hashtags) |-> JsonLoad(file.hashtags[i])],
     language |-> JsonLoad(file.language)]

\* A collector emits a post.
EmitPost(post) ==
    /\ calc.op = "none"
    /\ calc' = [op |-> "emitted", input |-> post, result |-> <<>>]
    /\ UNCHANGED <<now, last_request_time, grant_log, tw, resp, twitter_collector, bluesky_collector, boot, auth_failed, bs, bs_resp, db>>

\* tweets.append(tweet.to_dict()) (cli.py:94); the exception ends the command.
ToDictStep ==
    /\ calc.op = "emitted"
    /\ IF HasIsoformat(calc.input.date)
       THEN calc' = [calc EXCEPT !.op = "dict", !.result = ToDict(calc.input)]
       ELSE calc' = [calc EXCEPT !.op = "to_dict_error"]
    /\ UNCHANGED <<now, last_request_time, grant_log, tw, resp, twitter_collector, bluesky_collector, boot, auth_failed, bs, bs_resp, db>>

SaveJsonStep ==
    /\ calc.op = "dict"
    /\ calc' = [calc EXCEPT !.op = "file", !.result = SaveJson(calc.result)]
    /\ UNCHANGED <<now, last_request_time, grant_log, tw, resp, twitter_collector, bluesky_collector, boot, auth_failed, bs, bs_resp, db>>

LoadJsonStep ==
    /\ calc.op = "file"
    /\ calc' = [calc EXCEPT !.op = "loaded", !.result = LoadJson(calc.result)]
    /\ UNCHANGED <<now, last_request_time, grant_log, tw, resp, twitter_collector, bluesky_collector, boot, auth_failed, bs, bs_resp, db>>

\* ---------------------------------------------------------------------
\* TextPreprocessor.clean
\* ---------------------------------------------------------------------

\* A text is a sequence of pieces:
\*   "w"  a lowercase letter or digit       "h"  the letters http
\*   "H"  the letters HTTP                  ":"  the characters ://
\*   "@"  "#"  " "  themselves              "E"  an emoji (U+1F600)
TextChars == {"w", "h", "H", ":", "@", "#", " ", "E"}

\* The options of __init__ (lines 21-46).
CleanOptions ==
    [lowercase : BOOLEAN, remove_urls : BOOLEAN, remove_mentions : BOOLEAN,
     remove_hashtags : BOOLEAN, remove_emojis : BOOLEAN, remove_extra_whitespace : BOOLEAN]

\* [\w]: letters and digits, not punctuation, spaces or emojis.
IsWord(c) == c \in {"w", "h", "H"}

\* (?:[a-zA-Z]|[0-9]|[$-_@.&+]|[!*\(\),]|(?:%[0-9a-fA-F][0-9a-fA-F])): the
\* range $-_ holds ':' and '/', but neither '#' nor ' '.
IsUrlChar(c) == c \in {"w", "h", "H", ":", "@"}

\* The fixed start of a pattern at position i of text: its length, 0 for no
\* match there.  http[s]?:// is case-sensitive (no re.IGNORECASE).
HeadLen(pattern, text, i) ==
    CASE pattern = "url" ->
            IF i + 1 <= Len(text) /\ text[i] = "h" /\ text[i + 1] = ":" THEN 2 ELSE 0
      [] pattern = "mention" -> IF text[i] = "@" THEN 1 ELSE 0
      [] pattern = "hashtag" -> IF text[i] = "#" THEN 1 ELSE 0

\* The class repeated after the start, once or more.
IsBody(pattern, c) == IF pattern = "url" THEN IsUrlChar(c) ELSE IsWord(c)

\* The greedy run of the class from position i.
RECURSIVE RunLen(_, _, _)
RunLen(pattern, text, i) ==
    IF i <= Len(text) /\ IsBody(pattern, text[i])
    THEN 1 + RunLen(pattern, text, i + 1)
    ELSE 0

\* pattern.sub('', text): the leftmost matches, not overlapping, are removed
\* in one pass over text.
RECURSIVE SubFrom(_, _, _)
SubFrom(pattern, text, i) ==
    IF i > Len(text) THEN <<>>
    ELSE LET head == HeadLen(pattern, text, i)
             run == RunLen(pattern, text, i + head)
         IN  IF head > 0 /\ run > 0
             THEN SubFrom(pattern, text, i + head + run)
             ELSE <<text[i]>> \o SubFrom(pattern, text, i + 1)
Sub(pattern, text) == SubFrom(pattern, text, 1)

\* emoji_pattern.sub('', text): every run of emojis is removed.
SubEmoji(text) == SelectSeq(text, LAMBDA c : c # "E")

\* text.lower()
Lower(text) == [i \in 1..Len(text) |-> IF text[i] = "H" THEN "h" ELSE text[i]]

\* text.strip()
RECURSIVE Strip(_)
Strip(text) ==
    IF text = <<>> THEN <<>>
    ELSE IF Head(text) = " " THEN Strip(Tail(text))
    ELSE IF text[Len(text)] = " " THEN Strip(SubSeq(text, 1, Len(text) - 1))
    ELSE text

\* ' '.join(text.split()): no space at the ends, one space between words.
RECURSIVE SqueezeSpaces(_)
SqueezeSpaces(text) ==
    IF Len(text) < 2 THEN text
    ELSE IF text[1] = " " /\ text[2] = " " THEN SqueezeSpaces(Tail(text))
    ELSE <<text[1]>> \o SqueezeSpaces(Tail(text))
JoinSplit(text) == SqueezeSpaces(Strip(text))

\* clean, lines 76-103: the steps in the order of the code.
Clean(options, text) ==
    IF text = <<>> THEN <<>>
    ELSE LET t1 == IF options.remove_urls THEN Sub("url", text) ELSE text
             t2 == IF options.remove_mentions THEN Sub("mention", t1) ELSE t1
             t3 == IF options.remove_hashtags THEN Sub("hashtag", t2) ELSE t2
             t4 == IF options.remove_emojis THEN SubEmoji(t3) ELSE t3
             t5 == IF options.lowercase THEN Lower(t4) ELSE t4
             t6 == IF options.remove_extra_whitespace THEN JoinSplit(t5) ELSE t5
         IN  Strip(t6)

\* TextPreprocessor(**options).clean(text)
CleanText(options, text) ==
    /\ calc.op = "none"
    /\ calc' = [op |-> "clean", input |-> [options |-> options, text |-> text],
                result |-> Clean(options, text)]
    /\ UNCHANGED <<now, last_request_time, grant_log, tw, resp, twitter_collector, bluesky_collector, boot, auth_failed, bs, bs_resp, db>>

\* ---------------------------------------------------------------------
\* analyze_bluesky_user_sentiment: most_positive / most_negative
\* ---------------------------------------------------------------------

\* What sentiment_analyzer.analyze gives for one post: the sentiment of the
\* predicted label with the model's confidence in that label (score), or no
\* 'sentiment' key and score 0.0 for an empty text or a failed prediction.
SentimentResults ==
    [sentiment : {"positive", "negative"}, confidence : 1..2]
        \cup {[sentiment |-> "unknown", confidence |-> 0]}

\* analyzed_posts for the results of the posts, in the order of the posts.
AnalyzedPosts(results) ==
    [i \in 1..Len(results) |->
        [id |-> i, sentiment |-> results[i].sentiment, confidence |-> results[i].confidence]]

\* [p for p in analyzed_posts if p.sentiment == sentiment]
WithSentiment(analyzed_posts, sentiment) ==
    SelectSeq(analyzed_posts, LAMBDA p : p.sentiment = sentiment)

\* max(posts, key=lambda x: x.confidence): the first post of maximal key.
MaxConfidence(posts) ==
    posts[CHOOSE i \in 1..Len(posts) :
            /\ \A j \in 1..Len(posts) : posts[j].confidence <= posts[i].confidence
            /\ \A j \in 1..(i - 1) : posts[j].confidence < posts[i].confidence]

\* min(posts, key=lambda x: x.confidence): the first post of minimal key.
MinConfidence(posts) ==
    posts[CHOOSE i \in 1..Len(posts) :
            /\ \A j \in 1..Len(posts) : posts[j].confidence >= posts[i].confidence
            /\ \A j \in 1..(i - 1) : posts[j].confidence > posts[i].confidence]

\* Lines 379-383.
MostPositive(analyzed_posts) ==
    LET positive_posts == WithSentiment(analyzed_posts, "positive")
    IN  IF positive_posts # <<>> THEN MaxConfidence(positive_posts) ELSE analyzed_posts[1]
MostNegative(analyzed_posts) ==
    LET negative_posts == WithSentiment(analyzed_posts, "negative")
    IN  IF negative_posts # <<>> THEN MinConfidence(negative_posts) ELSE analyzed_posts[1]

\* The route analyses the posts it got (at least one: no posts is a 404)
\* and builds the result.
AnalyzePosts(results) ==
    /\ calc.op = "none"
    /\ results # <<>>
    /\ LET analyzed_posts == AnalyzedPosts(results)
       IN  calc' = [op |-> "summary", input |-> analyzed_posts,
                    result |-> [most_positive |-> MostPositive(analyzed_posts),
                                most_negative |-> MostNegative(analyzed_posts)]]
    /\ UNCHANGED <<now, last_request_time, grant_log, tw, resp, twitter_collector, bluesky_collector, boot, auth_failed, bs, bs_resp, db>>

\* The server after a start-up that found every Twitter credential, and the
\* Bluesky credentials either both (login accepted) or not at all.
Init ==
    /\ now = RateGap
    /\ last_request_time = 0
    /\ grant_log = <<>>
    /\ tw = [t \in Threads |-> TwIdle]
    /\ resp = [t \in Threads |-> NoResp]
    /\ twitter_collector = "ready"
    /\ bluesky_collector \in {"none", "ready"}
    /\ boot = IF bluesky_collector = "ready"
              THEN [Booting("set", "set", TwitterCredentials) EXCEPT
                       !.pc = "serving", !.login_attempts = 1, !.logged_in = TRUE]
              ELSE [Booting("none", "none", TwitterCredentials) EXCEPT
                       !.pc = "serving", !.error = "ValueError"]
    /\ auth_failed = FALSE
    /\ bs = BsIdle
    /\ bs_resp = BsNoResp
    /\ db = DbEmpty
    /\ calc = NoCalc

TwStep(t) ==
    \/ TwPull(t)
    \/ RlRead(t)
    \/ RlSleep(t)
    \/ RlWrite(t)
    \/ TwParse(t)
    \/ TwReturn(t)

\* One sequential caller (thread 1) of the Twitter collector: the CLI
\* command or a single client of the routes.
Next ==
    \/ \E ep \in TwEndpoints : \E limit \in TwLimits(ep) :
         \E items \in SeqsUpTo(TwItemKinds, MaxItems) : \E fails \in BOOLEAN :
            TwCall(1, ep, limit, items, fails)
    \/ TwStep(1)
    \/ Tick

Spec == Init /\ [][Next]_vars

\* The Bluesky route: requests to /api/bluesky/user/{handle}, one at a time.
NextBluesky ==
    \/ BsNotConfigured
    \/ \E limit \in 1..MaxLimit : \E token \in BOOLEAN : \E r \in BsResponses :
         BsCall(limit, token, r)
    \/ BsAuth
    \/ BsFetch
    \/ BsItem
    \/ BsReturn

SpecBluesky == Init /\ [][NextBluesky]_vars

\* The route handlers are plain "def" functions, which FastAPI runs on a
\* thread pool: two requests drive the one module-level twitter_collector
\* at the same time.
NextThreads ==
    \/ \E t \in Threads : \E limit \in 1..MaxItemsConc :
         \E items \in SeqsUpTo(TwItemKinds, MaxItemsConc) : \E fails \in BOOLEAN :
            TwCall(t, "tw_search", limit, items, fails)
    \/ \E t \in Threads : TwStep(t)
    \/ Tick

SpecThreads == Init /\ [][NextThreads]_vars

\* One caller that works with one of the two collectors: the behaviours of
\* Spec, and those of SpecBluesky on feeds of the item shapes (get_user_posts
\* reads no clock, so it is followed with the clock at rest).
NextCollectors ==
    \/ /\ bs = BsIdle /\ bs_resp = BsNoResp
       /\ Next
    \/ /\ tw[1] = TwIdle /\ resp[1] = NoResp /\ now = RateGap
       /\ \/ BsNotConfigured
          \/ \E limit \in 1..MaxLimit : \E token \in BOOLEAN :
               \E r \in BsResponsesOver(BsShapes, MaxFeed) : BsCall(limit, token, r)
          \/ BsAuth
          \/ BsFetch
          \/ BsItem
          \/ BsReturn

SpecCollectors == Init /\ [][NextCollectors]_vars

\* One caller of the user database at a time: save_analysis calls and
\* requests to /api/users.
NextUserDb ==
    \/ \E handle \in Handles : SaveCall(1, handle)
    \/ SaRead(1)
    \/ SaWrite(1)
    \/ GetSavedUsers

SpecUserDb == Init /\ [][NextUserDb]_vars

\* One client of the analysis route at a time: each request is followed by
\* the background task it scheduled.
NextAnalyze ==
    \/ \E actor \in Actors : \E profile_found \in BOOLEAN :
         db.next <= MaxRuns /\ AnalyzeRequest(1, actor, profile_found)
    \/ SaRead(1)
    \/ SaWrite(1)
    \/ TaskGet(1)
    \/ \E answered \in BOOLEAN : TaskLlm(1, answered)

SpecAnalyze == Init /\ [][NextAnalyze]_vars

\* Two workers on the one users.json file: no lock is taken anywhere in
\* UserDatabase, so the reads and writes of their calls interleave.
NextUserDbThreads ==
    \/ \E p \in Procs : \E actor \in Actors : \E profile_found \in BOOLEAN :
         db.next <= MaxRuns /\ AnalyzeRequest(p, actor, profile_found)
    \/ \E p \in Procs : SaRead(p)
    \/ \E p \in Procs : SaWrite(p)
    \/ \E p \in Procs : TaskGet(p)
    \/ \E p \in Procs : \E answered \in BOOLEAN : TaskLlm(p, answered)

SpecUserDbThreads == Init /\ [][NextUserDbThreads]_vars

\* A post of either collector is serialized, stored and read back.
NextRoundTrip ==
    \/ \E post \in TwitterPosts \cup BlueskyPosts : EmitPost(post)
    \/ ToDictStep
    \/ SaveJsonStep
    \/ LoadJsonStep

SpecRoundTrip == Init /\ [][NextRoundTrip]_vars

\* clean on every text up to MaxText pieces under every combination of options.
NextClean ==
    /\ calc.op = "none"
    /\ \E options \in CleanOptions : \E text \in SeqsUpTo(TextChars, MaxText) :
          CleanText(options, text)

SpecClean == Init /\ [][NextClean]_vars

\* One analysis request over every list of sentiment results.
NextSummary ==
    /\ calc.op = "none"
    /\ \E results \in SeqsUpTo(SentimentResults, MaxPosts) : AnalyzePosts(results)

SpecSummary == Init /\ [][NextSummary]_vars

\* The import of api.main under every combination of settings, followed by
\* one client that sends its requests to the routes of one provider: scrapes
\* with limit 1 that the provider answers with at most one item.
InitStartup ==
    /\ now = RateGap
    /\ last_request_time = 0
    /\ grant_log = <<>>
    /\ tw = [t \in Threads |-> TwIdle]
    /\ resp = [t \in Threads |-> NoResp]
    /\ twitter_collector = "unset"
    /\ bluesky_collector = "unset"
    /\ boot \in {Booting(h, p, ts) : h \in SettingKinds, p \in SettingKinds,
                                     ts \in SUBSET TwitterCredentials}
    /\ auth_failed = FALSE
    /\ bs = BsIdle
    /\ bs_resp = BsNoResp
    /\ db = DbEmpty
    /\ calc = NoCalc

TwUntouched == tw[1] = TwIdle /\ resp[1] = NoResp
BsUntouched == bs = BsIdle /\ bs_resp = BsNoResp

NextStartup ==
    \/ TwitterInit
    \/ BlueskyInit
    \/ \E accepted \in BOOLEAN : BlueskyLogin(accepted)
    \/ /\ TwUntouched
       /\ \/ BsNotConfigured
          \/ \E token \in BOOLEAN : \E r \in BsResponsesOver(BsShapes, 1) :
               BsCall(1, token, r)
          \/ BsAuth
          \/ BsFetch
          \/ BsItem
          \/ BsReturn
    \/ /\ BsUntouched
       /\ \/ \E items \in SeqsUpTo(TwItemKinds, 1) : \E fails \in BOOLEAN :
               TwCall(1, "tw_search", 1, items, fails)
          \/ TwStep(1)
          \/ Tick

SpecStartup == InitStartup /\ [][NextStartup]_vars

\* ================================================================ claims

\* Positions of a sequence, and how many of them satisfy a test.
Positions(s) == 1..Len(s)
EmittedPositions(posts) == {posts[k].pos : k \in Positions(posts)}
ValidPositions(feed) == {j \in Positions(feed) : feed[j] = BsValid}
OkPositions(items) == {j \in Positions(items) : items[j] = "ok"}
RangeOf(s) == {s[k] : k \in Positions(s)}

\* The malformed items: no key-value document, no 'post' member, or a
\* member of the wrong type.
BsMalformed(item) ==
    item.doc # "dict" \/ item.post # "dict" \/ item.record = "null" \/ item.uri = "num"
MalformedPositions(feed) == {j \in Positions(feed) : BsMalformed(feed[j])}

\* A get_user_posts call that got a non-empty feed has been answered.
BsFeedAnswered ==
    /\ bs_resp.status \notin {"none", "503"}
    /\ bs_resp.token
    /\ bs_resp.http = "200"
    /\ bs_resp.feed # <<>>

\* A get_user_posts call has been answered by the route.
BsAnswered == bs_resp.status \notin {"none", "503"}

\* C1: a failure on one raw item never stops the items after it: once a
\* call has ended without a provider failure and without reaching its limit,
\* every valid item of the provider's sequence has been emitted, those
\* after a malformed item included.
C1_ItemFailureIsolated ==
    /\ BsFeedAnswered =>
          \A j \in ValidPositions(bs_resp.feed) :
             (\E i \in 1..(j - 1) : BsMalformed(bs_resp.feed[i]))
                => j \in EmittedPositions(bs_resp.body)
    /\ \A t \in Threads :
          (/\ resp[t].status # "none"
           /\ ~resp[t].failed
           /\ (resp[t].limit = 0 \/ Len(resp[t].produced) < resp[t].limit))
          => OkPositions(resp[t].items) \subseteq RangeOf(resp[t].produced)

\* C2: a Bluesky feed of N items with exactly one malformed item gives
\* N-1 posts and a skipped-count of 1.
C2_OneMalformedSkipsOne ==
    (/\ BsFeedAnswered
     /\ Cardinality(MalformedPositions(bs_resp.feed)) = 1
     /\ Cardinality(ValidPositions(bs_resp.feed)) = Len(bs_resp.feed) - 1)
    => /\ Len(bs_resp.body) = Len(bs_resp.feed) - 1
       /\ bs_resp.posts_skipped = 1

\* C3: a call with requested limit L never emits more than L posts,
\* whatever the provider's response holds.
C3_NeverMoreThanLimit ==
    /\ \A t \in Threads : tw[t].limit > 0 => Len(tw[t].out) <= tw[t].limit
    /\ bs.pc # "idle" => Len(bs.out) <= bs.limit

\* C4: when the provider supplies at least L valid items, the call emits
\* exactly L posts.
C4_ExactlyLimit ==
    /\ \A t \in Threads :
          (/\ resp[t].status # "none"
           /\ resp[t].limit > 0
           /\ Cardinality(OkPositions(resp[t].items)) >= resp[t].limit)
          => Len(resp[t].produced) = resp[t].limit
    /\ (/\ BsFeedAnswered
        /\ Cardinality(ValidPositions(bs_resp.feed)) >= bs_resp.limit)
       => Len(bs_resp.body) = bs_resp.limit

\* C5: when the provider fails after k >= 1 posts were produced, the entry
\* point still delivers those k posts.
C5_PartialOutputDelivered ==
    \A t \in Threads :
       (resp[t].failed /\ Len(resp[t].produced) >= 1)
       => resp[t].body = resp[t].produced

\* C6: with one sequential caller, two consecutive grants of the rate
\* limiter are at least 1/R apart, whatever the calls and idle periods.
C6_GrantsSpaced ==
    Len(grant_log) = 2 => grant_log[2] - grant_log[1] >= RateGap

\* C6 witness: a second grant has just been made, exactly 1/R after the
\* first one, by a caller that had to sleep.
C6_Witness ==
    /\ Len(grant_log) = 2
    /\ tw[1].pc = "parse"
    /\ tw[1].wake = grant_log[2]
    /\ grant_log[2] = grant_log[1] + RateGap

\* C7: with two calls running through the shared collector, no two grants
\* are less than 1/R apart under any interleaving.
C7_ConcurrentGrantsSpaced ==
    \A i \in Positions(grant_log), j \in Positions(grant_log) :
       i < j => grant_log[j] >= grant_log[i] + RateGap

\* C8: a non-2xx answer to the feed request gives zero posts and a typed
\* error chosen by the status: 401 AuthenticationError, 404 NotFoundError,
\* anything else ProviderError.
C8_TypedErrorByStatus ==
    (BsAnswered /\ bs_resp.requests = 1 /\ bs_resp.http \in {"401", "404", "500"})
    => /\ bs_resp.body = <<>>
       /\ bs_resp.error = CASE bs_resp.http = "401" -> "AuthenticationError"
                            [] bs_resp.http = "404" -> "NotFoundError"
                            [] OTHER -> "ProviderError"

\* C9: when no session token can be resolved, the call fails with an error
\* that reaches its caller and no HTTP request is issued.
C9_NoTokenFailsBeforeRequest ==
    (BsAnswered /\ ~bs_resp.token)
    => /\ bs_resp.error # "none"
       /\ bs_resp.requests = 0

\* C10: the route answers a provider failure (non-2xx other than 404,
\* authentication rejection, network error or timeout) with the generic
\* upstream-failure response (500), never with not-found (404).
C10_ProviderFailureIsUpstreamFailure ==
    /\ (BsAnswered /\ bs_resp.requests = 1 /\ bs_resp.http \in {"401", "500", "neterr"})
       => bs_resp.status = "500"
    /\ \A t \in Threads :
          (resp[t].ep = "tw_user" /\ resp[t].failed) => resp[t].status = "500"

\* A setting that holds no usable value (None or the empty string).
Absent(setting) == setting # "set"
BlueskyAbsent == Absent(boot.BLUESKY_HANDLE) \/ Absent(boot.BLUESKY_PASSWORD)
TwitterAbsent == boot.twitter_set # TwitterCredentials

\* C11: constructing BlueskyCollector when the handle or the password is
\* absent raises the configuration error (ValueError) inside the
\* constructor, before any login attempt, and never defers it to a
\* get_user_posts call: no such call ever starts on that collector.
C11_ConfigErrorAtConstruction ==
    BlueskyAbsent
    => /\ boot.login_attempts = 0
       /\ ~boot.logged_in
       /\ boot.pc \notin {"tw_init", "bs_init"}
            => (boot.pc = "serving" /\ boot.error = "ValueError"
                /\ bluesky_collector = "none")
       /\ bs.pc = "idle"
       /\ bs_resp.status \in {"none", "503"}

C11_Witness ==
    /\ boot.BLUESKY_HANDLE = "set"
    /\ Absent(boot.BLUESKY_PASSWORD)
    /\ boot.error = "ValueError"
    /\ bs_resp.status = "503"

\* C12: constructing TwitterCollector when any of the four credentials is
\* missing fails with the configuration error at construction: the module
\* is left without a Twitter collector, and no search / get_user_tweets
\* call is what reports it.
C12_TwitterConfigErrorAtConstruction ==
    (TwitterAbsent /\ boot.pc # "tw_init")
    => /\ twitter_collector = "none"
       /\ tw[1].pc = "idle"

\* C13: when the credentials of one provider are absent, start-up still
\* completes and the other provider stays usable; every endpoint of the
\* disabled provider answers 503 and issues no provider request.
C13_BlueskyDisabledAnswers503 ==
    (BlueskyAbsent /\ boot.pc \notin {"tw_init", "bs_init"})
    => /\ boot.pc = "serving"
       /\ twitter_collector = "ready"
       /\ bs.pc = "idle"
       /\ bs_resp.status \in {"none", "503"}
       /\ bs_resp.requests = 0
C13_TwitterDisabledAnswers503 ==
    (TwitterAbsent /\ boot.pc = "serving")
    => /\ CredentialsSet(boot.BLUESKY_HANDLE, boot.BLUESKY_PASSWORD)
            => bluesky_collector = "ready"
       /\ tw[1].pc = "idle"
       /\ resp[1].status \in {"none", "503"}
C13_DisabledProviderAnswers503 ==
    C13_BlueskyDisabledAnswers503 /\ C13_TwitterDisabledAnswers503

\* C14: once an authentication failure has occurred on a collector instance
\* (login rejected during construction, or a 401 during a fetch), further
\* use of the instance is disabled: no later step issues a provider request.
C14_NoRequestAfterAuthFailure ==
    [][auth_failed => bs'.requests <= bs.requests]_vars

StrictlyIncreasing(s) == \A i \in Positions(s), j \in Positions(s) : i < j => s[i] < s[j]
PosSeq(posts) == [k \in Positions(posts) |-> posts[k].pos]
Indices(s) == [i \in Positions(s) |-> i]

\* C15: the emitted posts are a subsequence of the provider's item sequence
\* in the same relative order, for both collectors: each emitted post is the
\* parse of one provider item, and the positions of the emitted posts are
\* strictly increasing, while the call runs and in what the caller receives.
C15_EmittedInProviderOrder ==
    /\ \A t \in Threads :
          /\ StrictlyIncreasing(tw[t].out)
          /\ RangeOf(tw[t].out) \subseteq {j \in OkPositions(tw[t].items) : j <= tw[t].idx}
          /\ StrictlyIncreasing(resp[t].produced)
          /\ RangeOf(resp[t].produced) \subseteq OkPositions(resp[t].items)
          /\ resp[t].body \in {<<>>, resp[t].produced}
    /\ StrictlyIncreasing(PosSeq(bs.out))
    /\ \A k \in Positions(bs.out) :
          /\ bs.out[k].pos \in 1..bs.idx
          /\ bs.out[k] = ParsePost(bs.feed[bs.out[k].pos], bs.out[k].pos).tweet
    /\ StrictlyIncreasing(PosSeq(bs_resp.body))
    /\ \A k \in Positions(bs_resp.body) :
          /\ bs_resp.body[k].pos \in Positions(bs_resp.feed)
          /\ bs_resp.body[k]
               = ParsePost(bs_resp.feed[bs_resp.body[k].pos], bs_resp.body[k].pos).tweet

C15_Witness ==
    /\ resp[1].items = <<"ok", "bad", "ok">>
    /\ resp[1].body = <<1, 3>>

FirstOk(items, limit) ==
    LET ok == SelectSeq(Indices(items), LAMBDA i : items[i] = "ok")
    IN  IF limit = 0 \/ Len(ok) <= limit THEN ok ELSE SubSeq(ok, 1, limit)
FeedStop(feed) ==
    LET raising == {j \in Positions(feed) : HasPost(feed[j]) = "raise"}
    IN  IF raising = {} THEN Len(feed) + 1
        ELSE CHOOSE j \in raising : \A i \in raising : j <= i
FeedPosts(feed) ==
    LET sel == SelectSeq(Indices(feed),
                         LAMBDA i : /\ i < FeedStop(feed)
                                    /\ HasPost(feed[i]) = "parse"
                                    /\ ParsePost(feed[i], i).ok)
    IN  [k \in Positions(sel) |-> ParsePost(feed[sel[k]], sel[k]).tweet]

\* C17: every call is a fresh collection: what a call gives is fixed by the
\* provider's answer to that call and its limit alone (it starts at the
\* provider's first item, whatever earlier calls did), and every call that
\* has a session token issues its own request.
C17_FreshCollectionPerCall ==
    /\ \A t \in Threads :
          resp[t].status \notin {"none", "503"}
          => /\ resp[t].produced = FirstOk(resp[t].items, resp[t].limit)
             /\ resp[t].failed
                  => (resp[t].limit = 0 \/ Len(FirstOk(resp[t].items, 0)) < resp[t].limit)
    /\ BsAnswered
       => /\ bs_resp.requests = IF bs_resp.token THEN 1 ELSE 0
          /\ bs_resp.body = IF bs_resp.token /\ bs_resp.http = "200"
                            THEN FeedPosts(bs_resp.feed) ELSE <<>>

C17_Witness ==
    /\ Len(grant_log) = 2
    /\ resp[1].status = "200"
    /\ resp[1].items = <<"ok">>
    /\ resp[1].body = <<1>>

\* The required fields of a raw item are present: the 'post' document with
\* its record, its uri and its author's handle.
RequiredPresent(item) ==
    /\ item.doc = "dict" /\ item.post = "dict" /\ item.record = "dict"
    /\ item.uri = "str" /\ item.handle = "str"

\* C18: every raw item whose required fields are present is emitted, not
\* skipped, whatever the state of its optional fields (a missing, null or
\* empty language list or count degrades to the default).  Stated for the
\* items the loop reaches, that is those before an item that ends the loop.
C18_OptionalFieldsNeverFail ==
    BsFeedAnswered
    => \A j \in Positions(bs_resp.feed) :
          (RequiredPresent(bs_resp.feed[j]) /\ j < FeedStop(bs_resp.feed))
          => j \in EmittedPositions(bs_resp.body)

\* C19: every emitted post has a non-empty id and a non-empty author handle
\* (its url is built around both and is never empty).
C19_EmittedIdAndHandleNonEmpty ==
    \A k \in Positions(bs_resp.body) :
       bs_resp.body[k].id # "" /\ bs_resp.body[k].username # ""

\* C20: in every emitted post the like count is a non-negative integer, and
\* it is 0 whenever the payload supplies no value for it (key absent or null).
C20_CountsAreIntegers ==
    \A k \in Positions(bs_resp.body) :
       bs_resp.body[k].likes
         = LikesOrZero(bs_resp.feed[bs_resp.body[k].pos].likes)

HandlesOf(users) == [k \in Positions(users) |-> users[k].user_handle]
FirstN(s, n) == IF Len(s) <= n THEN s ELSE SubSeq(s, 1, n)

\* The distinct handles of a save history, the one saved last first.
RECURSIVE MostRecentFirst(_)
MostRecentFirst(log) ==
    IF log = <<>> THEN <<>>
    ELSE LET last == log[Len(log)]
         IN  <<last>> \o SelectSeq(MostRecentFirst(SubSeq(log, 1, Len(log) - 1)),
                                   LAMBDA h : h # last)

\* The analysis saved last for a handle.
LastSaved(log, handle) ==
    LET hits == SelectSeq(log, LAMBDA a : a.user_handle = handle)
    IN  hits[Len(hits)]

\* C21: starting from an empty store, after any sequence of save_analysis
\* calls the store holds at most max_users entries, no two of them with the
\* same handle, and they are those of the max_users handles saved most
\* recently: one save more drops exactly the least recently saved entry,
\* and the call ends as a normal save.
C21_BoundedDistinctStore ==
    /\ Len(db.users) <= MaxUsers
    /\ \A i \in Positions(db.users), j \in Positions(db.users) :
          i # j => db.users[i].user_handle # db.users[j].user_handle
    /\ RangeOf(HandlesOf(db.users))
         = RangeOf(FirstN(MostRecentFirst(HandlesOf(db.saved)), MaxUsers))
    /\ db.w[1].status \in {"none", "saved", "skipped"}

C21_Witness ==
    /\ Len(db.users) = MaxUsers
    /\ Cardinality(RangeOf(HandlesOf(db.saved))) = MaxUsers + 1
    /\ db.saved[1].user_handle \notin RangeOf(HandlesOf(db.users))
    /\ db.w[1].status = "saved"

\* C22: read_all gives the entries most-recent-first by their last save:
\* the handle saved last is at index 0, a handle saved again holds its new
\* analysis and is at the front, and the others keep their relative order.
C22_MostRecentFirstOrder ==
    /\ HandlesOf(db.users) = FirstN(MostRecentFirst(HandlesOf(db.saved)), MaxUsers)
    /\ \A k \in Positions(db.users) :
          db.users[k] = LastSaved(db.saved, db.users[k].user_handle)
    /\ db.listing \in {<<>>, db.users}

C22_Witness ==
    /\ HandlesOf(db.saved) = <<1, 2, 1>>
    /\ HandlesOf(db.users) = <<1, 2>>
    /\ db.users[1].stamp = 3
    /\ db.listing = db.users

\* C30: save_analysis with an analysis whose user_handle is missing or
\* empty writes nothing and returns normally: no write_all call is made
\* for it, no entry without a handle is ever stored, and the call ends as
\* skipped with the list as it was.
C30_NoHandleNoWrite ==
    /\ db.writes = Len(db.saved)
    /\ \A k \in Positions(db.saved) : db.saved[k].user_handle # 0
    /\ \A k \in Positions(db.users) : db.users[k].user_handle # 0
    /\ \A p \in Procs :
          (db.w[p].analysis.stamp # 0 /\ db.w[p].analysis.user_handle = 0
           /\ db.w[p].pc # "sa_read")
          => (db.w[p].pc = "idle" /\ db.w[p].status = "skipped")

C30_Witness ==
    /\ db.w[1].status = "skipped"
    /\ db.w[1].pc = "idle"
    /\ Len(db.users) = MaxUsers

\* ---------------------------------------------------------------------
\* The personality task and concurrent saves (SpecUserDbThreads, SpecAnalyze)
\* ---------------------------------------------------------------------

\* p is inside the save_analysis call of the personality task.
TaskWrites(p) == db.w[p].pc = "sa_write" /\ db.w[p].analysis.personality

\* C26: when the personality task writes its entry for handle h, the stored
\* entry for h keeps the posts and totals it had just before the write (those
\* of the newest saved analysis): the task adds the personality text only and
\* never puts the older analysis data it read back over newer data.
C26_TaskKeepsNewerAnalysis ==
    [][\A p \in Procs :
          (TaskWrites(p) /\ db'.w[p].pc = "idle")
              => LET h == db.w[p].analysis.user_handle
                     stored == GetByHandle(db.users, h)
                 IN  stored # NoEntry
                         => /\ GetByHandle(db'.users, h).stamp = stored.stamp
                            /\ GetByHandle(db'.users, h).personality]_vars

\* C27: as long as no more than max_users distinct handles were saved, every
\* analysis written by a save_analysis call that has returned is still in the
\* store: no interleaving of two calls loses one of the two writes.
C27_NoLostWrite ==
    Cardinality({db.saved[i].user_handle : i \in 1..Len(db.saved)}) <= MaxUsers
        => \A i \in 1..Len(db.saved) :
              GetByHandle(db.users, db.saved[i].user_handle) # NoEntry

\* C28: the personality task scheduled by a request finds the entry that the
\* same request saved, whatever profile the provider returned: it never ends
\* without an entry, and the entry it reads is the analysis of that request.
C28_TaskFindsSavedEntry ==
    \A p \in Procs :
        /\ db.w[p].status # "not_found"
        /\ db.w[p].pc = "t_llm" => db.w[p].found = db.w[p].analysis

\* ---------------------------------------------------------------------
\* A search without results (Spec)
\* ---------------------------------------------------------------------

\* The provider answers the call of thread t with no items and no error.
NoResults(t) == tw[t].pc # "idle" /\ tw[t].items = <<>> /\ ~tw[t].fails

\* C24: a search for which the provider returns no items ends normally with
\* an empty sequence: its first step leaves the loop, nothing is emitted, no
\* error is raised, and no step of the call makes a rate-limiter grant.
C24_NoResultsEndsEmpty ==
    [][\A t \in Threads :
          NoResults(t)
              => /\ grant_log' = grant_log
                 /\ last_request_time' = last_request_time
                 /\ tw'[t] # tw[t] => tw'[t].pc \in {"end", "idle"}
                 /\ tw'[t].pc # "idle" => tw'[t].out = <<>> /\ ~tw'[t].raised
                 /\ tw'[t].pc = "idle"
                       => /\ resp'[t].items = <<>>
                          /\ resp'[t].produced = <<>>
                          /\ resp'[t].body = <<>>
                          /\ ~resp'[t].failed]_vars

\* A search without results has returned with status 200 and an empty list
\* after earlier calls made grants.
C24_Witness ==
    /\ tw[1].pc = "idle"
    /\ resp[1].ep = "tw_search" /\ resp[1].status = "200"
    /\ resp[1].items = <<>> /\ resp[1].produced = <<>> /\ ~resp[1].failed
    /\ grant_log # <<>> /\ last_request_time = grant_log[Len(grant_log)]

\* ---------------------------------------------------------------------
\* Storage round trip (SpecRoundTrip)
\* ---------------------------------------------------------------------

\* The text of a timestamp, whatever its representation.
TimestampText(value) == value.v

\* C23: for every post emitted by a collector, to_dict does not fail, and
\* the record read back after save_json and load_json equals the post field
\* for field, the timestamp up to its representation.
C23_StorageRoundTrip ==
    /\ calc.op # "to_dict_error"
    /\ calc.op = "loaded"
          => /\ calc.result.id = calc.input.id
             /\ calc.result.likes = calc.input.likes
             /\ calc.result.hashtags = calc.input.hashtags
             /\ calc.result.language = calc.input.language
             /\ TimestampText(calc.result.date) = TimestampText(calc.input.date)

\* ---------------------------------------------------------------------
\* Most positive and most negative post (SpecSummary)
\* ---------------------------------------------------------------------

\* post has the given sentiment and no post of that sentiment has a higher
\* confidence.
HighestConfidence(post, analyzed_posts, sentiment) ==
    /\ post.sentiment = sentiment
    /\ \E i \in 1..Len(analyzed_posts) : analyzed_posts[i] = post
    /\ \A i \in 1..Len(analyzed_posts) :
          analyzed_posts[i].sentiment = sentiment
              => analyzed_posts[i].confidence <= post.confidence

\* C29: most_positive is a positive post of the highest confidence when a
\* post is positive, most_negative is a negative post of the highest
\* confidence when a post is negative, and each is the first analyzed post
\* when no post has the label.
C29_MostConfidentPosts ==
    calc.op = "summary"
        => LET analyzed_posts == calc.input
               HasLabel(sentiment) == WithSentiment(analyzed_posts, sentiment) # <<>>
           IN  /\ IF HasLabel("positive")
                  THEN HighestConfidence(calc.result.most_positive, analyzed_posts, "positive")
                  ELSE calc.result.most_positive = analyzed_posts[1]
               /\ IF HasLabel("negative")
                  THEN HighestConfidence(calc.result.most_negative, analyzed_posts, "negative")
                  ELSE calc.result.most_negative = analyzed_posts[1]

\* ---------------------------------------------------------------------
\* What clean leaves in the text (SpecClean)
\* ---------------------------------------------------------------------

\* text contains a match of the pattern: '@' or '#' followed by a word
\* character, or http:// followed by a character of a URL.
Contains(pattern, text) ==
    \E i \in 1..Len(text) :
        HeadLen(pattern, text, i) > 0 /\ RunLen(pattern, text, i + HeadLen(pattern, text, i)) > 0

\* C25: for every text and every combination of the other options, the
\* result of clean contains no mention when remove_mentions is enabled, no
\* hashtag when remove_hashtags is enabled and no URL when remove_urls is
\* enabled.
C25_CleanRemovesAll ==
    calc.op = "clean"
        => /\ calc.input.options.remove_mentions => ~Contains("mention", calc.result)
           /\ calc.input.options.remove_hashtags => ~Contains("hashtag", calc.result)
           /\ calc.input.options.remove_urls => ~Contains("url", calc.result)

====
